---- MODULE Spec2Model ----
(***************************************************************************)
(* Boundary-condition identifiers, their ordering, and the BCBase record   *)
(* of Examples/src/bcHandler/bound_cond.hpp.                               *)
(*                                                                         *)
(* The header is read in its evident sense: std::less<T>(x,y) is the call  *)
(* std::less<T>()(x,y), `BCFun' is the typedef `BcFun', and `a._id<b._id'  *)
(* / `a._id==b._id' are the std::less / std::equal_to specialisations on   *)
(* BCId that the header provides.                                          *)
(***************************************************************************)
EXTENDS Integers, Sequences, FiniteSets

VARIABLES
  a, b, c,     \* three identifiers handed to less / equal_to
  lt, eq,      \* the results of less / equal_to on every pair of (a, b, c)
  l, r,        \* two BCBase objects
  out,         \* what the last call on l / r returned
  coll,        \* a sorted collection of BCBase (its iteration order)
  policy,      \* what the collection does with a duplicate key
  last,        \* the last operation on the collection
  ops,         \* how many operations the collection has seen
  seq,         \* a plain sequence of BCBase (a vector)
  sel          \* the result of filtering seq

vars == <<a, b, c, lt, eq, l, r, out, coll, policy, last, ops, seq, sel>>

----------------------------------------------------------------------------
(* enum BCType: the enumerators carry their declaration order.             *)
Dirichlet == 0
Neumann == 1
Robin == 2
Generic == 3
Other == 4

BCType == {Dirichlet, Neumann, Robin, Generic, Other}

(* BCName = std::string: a name is its sequence of character codes.        *)
Floor == <<70, 108, 111, 111, 114>>
Inlet == <<73, 110, 108, 101, 116>>
Wall == <<87, 97, 108, 108>>
Wa == <<87, 97>>

Homogeneous == <<72, 111, 109, 111, 103, 101, 110, 101, 111, 117, 115>>

(* The names of the records kept in collections, and the larger set the    *)
(* comparisons are tried on (a proper prefix, the default name).           *)
Names == {Floor, Inlet, Wall}
AllNames == Names \cup {Wa, Homogeneous}

(* BCId(t, n): the struct of a type and a name.                            *)
BCId(t, n) == [type |-> t, name |-> n]

BCIds == {BCId(t, n) : t \in BCType, n \in Names}
AllBCIds == {BCId(t, n) : t \in BCType, n \in AllNames}

(* std::less<BCType>: the order of the enumerators.                        *)
TypeLess(s, t) == s < t

(* std::less<std::string>: lexicographic on the characters; a proper       *)
(* prefix is less.                                                         *)
RECURSIVE NameLess(_, _)
NameLess(s, t) ==
  IF t = <<>> THEN FALSE
  ELSE IF s = <<>> THEN TRUE
  ELSE IF Head(s) < Head(t) THEN TRUE
  ELSE IF Head(t) < Head(s) THEN FALSE
  ELSE NameLess(Tail(s), Tail(t))

(* Mutants of less: a non-strict comparison of the names; the name taken   *)
(* before the type.                                                        *)
less_nonstrict(x, y) ==
  IF ~TypeLess(x.type, y.type) /\ ~TypeLess(y.type, x.type)
  THEN ~NameLess(y.name, x.name)
  ELSE TypeLess(x.type, y.type)

less_namefirst(x, y) ==
  IF ~NameLess(x.name, y.name) /\ ~NameLess(y.name, x.name)
  THEN TypeLess(x.type, y.type)
  ELSE NameLess(x.name, y.name)

less_typeonly(x, y) == TypeLess(x.type, y.type)

(* std::less<BCId<BCName> >::operator()                                    *)
less(x, y) ==
  IF ~TypeLess(x.type, y.type) /\ ~TypeLess(y.type, x.type)
  THEN NameLess(x.name, y.name)
  ELSE TypeLess(x.type, y.type)

(* Mutant of equal_to: only one direction of less is consulted.            *)
equal_to_oneway(x, y) == ~less(x, y)

(* std::equal_to<BCId<BCName> >::operator()                                *)
equal_to(x, y) == ~less(x, y) /\ ~less(y, x)

----------------------------------------------------------------------------
(* BcFun is a std::function from (time, coordinates) to double; it either  *)
(* holds no target (default-constructed) or holds a callable.  The         *)
(* callables used here: the constant 1, and t + coord[0].                  *)
EmptyFun == "empty"
ConstOne == "one"
TimePlusX == "t_plus_x"

(* BCFun zerofun;  -- a default-constructed std::function                  *)
zerofun == EmptyFun

Funs == {zerofun, ConstOne, TimePlusX}

(* The functions the records put into containers are constructed with: the *)
(* default argument, or an explicit callable.                              *)
CtorFuns == {zerofun, ConstOne}

Times == {0, 1}
Coords == {<<0>>, <<2>>}

(* std::function::operator(): the sequence of values returned; empty when  *)
(* the call throws std::bad_function_call (no target).                     *)
Call(f, t, coord) ==
  IF f = EmptyFun THEN <<>>
  ELSE IF f = ConstOne THEN <<1>>
  ELSE <<t + coord[1]>>

EntityLists == {<<>>, <<3>>, <<2, 1>>}

(* BCBase::BCBase(t, n, fun): no entities, the function, the identifier.   *)
BCBase(t, n, fun) == [entities |-> <<>>, fun |-> fun, id |-> BCId(t, n)]

(* BCBase::get_Id / name / type                                            *)
get_Id(x) == x.id
name(x) == x.id.name
type(x) == x.id.type

(* BCBase::set_Id                                                          *)
set_Id(x, id) == [x EXCEPT !.id = id]

(* Mutant of set_fun: the entities are reset with the function.            *)
set_fun_resets(x, f) == [x EXCEPT !.fun = f, !.entities = <<>>]

(* BCBase::set_fun                                                         *)
set_fun(x, f) == [x EXCEPT !.fun = f]

(* BCBase::set_entities, declared in the header: "It sets the entities to  *)
(* a new value".                                                           *)
set_entities(x, e) == [x EXCEPT !.entities = e]

(* BCBase::entities                                                        *)
entities(x) == x.entities

(* BCBase::apply                                                           *)
apply(x, t, coord) == Call(x.fun, t, coord)

(* Mutant of operator<: the entity lists break ties.                       *)
RecLess_payload(x, y) ==
  less(x.id, y.id) \/ (equal_to(x.id, y.id) /\ Len(x.entities) < Len(y.entities))

(* operator<(BCBase const &, BCBase const &)                               *)
RecLess(x, y) == less(x.id, y.id)

(* Mutant of operator==: the functions must agree too.                     *)
RecEq_payload(x, y) == equal_to(x.id, y.id) /\ x.fun = y.fun

(* operator==(BCBase const &, BCBase const &)                              *)
RecEq(x, y) == equal_to(x.id, y.id)

(* Mutant of isBCTypeEqual: the test is negated.                           *)
isBCTypeEqual_negated(t, x) == x.id.type # t

(* isBCTypeEqual(t)(b)                                                     *)
isBCTypeEqual(t, x) == x.id.type = t

(* isBCNameEqual(n)(b)                                                     *)
isBCNameEqual(n, x) == x.id.name = n

----------------------------------------------------------------------------
None == [op |-> "none"]

(* The values the variables a specification does not use are held at.      *)
IdleIds == a = BCId(Dirichlet, Wall) /\ b = a /\ c = a /\ lt = <<>> /\ eq = <<>>
IdleRec == l = BCBase(Dirichlet, Wall, zerofun) /\ r = l /\ out = None
IdleColl == coll = <<>> /\ policy = "reject" /\ last = None /\ ops = 0
IdleSeq == seq = <<>> /\ sel = None

----------------------------------------------------------------------------
(* Identifiers: less and equal_to applied to every pair of three           *)
(* identifiers.                                                            *)
args == <<a, b, c>>

InitId ==
  /\ a \in AllBCIds /\ b \in AllBCIds /\ c \in AllBCIds
  /\ lt = <<>> /\ eq = <<>>
  /\ IdleRec /\ IdleColl /\ IdleSeq

CallLess ==
  /\ lt = <<>>
  /\ lt' = [i \in 1..3 |-> [j \in 1..3 |-> less(args[i], args[j])]]
  /\ UNCHANGED <<a, b, c, eq, l, r, out, coll, policy, last, ops, seq, sel>>

CallEqualTo ==
  /\ eq = <<>>
  /\ eq' = [i \in 1..3 |-> [j \in 1..3 |-> equal_to(args[i], args[j])]]
  /\ UNCHANGED <<a, b, c, lt, l, r, out, coll, policy, last, ops, seq, sel>>

NextId == CallLess \/ CallEqualTo

SpecId == InitId /\ [][NextId]_vars

P3 == {1, 2, 3}
SameId(x, y) == x.type = y.type /\ x.name = y.name

(* C1: less is a strict total order on the identifiers: it is irreflexive, *)
(* transitive and asymmetric, and of less(x,y), less(y,x), x = y (same     *)
(* kind and same name) exactly one holds.                                  *)
C1_StrictTotalOrder ==
  lt # <<>> =>
    /\ \A i \in P3 : ~lt[i][i]
    /\ \A i, j, k \in P3 : lt[i][j] /\ lt[j][k] => lt[i][k]
    /\ \A i, j \in P3 : lt[i][j] => ~lt[j][i]
    /\ \A i, j \in P3 :
         /\ lt[i][j] \/ lt[j][i] \/ SameId(args[i], args[j])
         /\ ~(lt[i][j] /\ SameId(args[i], args[j]))
         /\ ~(lt[j][i] /\ SameId(args[i], args[j]))

(* less was applied to three distinct identifiers that form a chain, two   *)
(* of them of one kind and one name a proper prefix of another.            *)
C1_Witness ==
  /\ lt # <<>>
  /\ lt[1][2] /\ lt[2][3] /\ lt[1][3]
  /\ a.type = b.type /\ b.type # c.type
  /\ a.name = Wa /\ b.name = Wall

(* The order of two characters strings as a dictionary has it, stated on   *)
(* the first place where they differ.                                      *)
Min(m, n) == IF m < n THEN m ELSE n
DictLess(s, t) ==
  \/ \E p \in 1..Min(Len(s), Len(t)) :
       /\ \A q \in 1..(p - 1) : s[q] = t[q]
       /\ s[p] < t[p]
  \/ /\ Len(s) < Len(t)
     /\ \A q \in 1..Len(s) : s[q] = t[q]

(* C2: less is the two-level lexicographic comparison, kind first: with    *)
(* different kinds it is the enumeration order of the kinds whatever the   *)
(* names, with equal kinds it is the natural order of the names.           *)
C2_KindThenName ==
  lt # <<>> =>
    \A i, j \in P3 :
      /\ args[i].type # args[j].type => lt[i][j] = (args[i].type < args[j].type)
      /\ args[i].type = args[j].type => lt[i][j] = DictLess(args[i].name, args[j].name)

(* less was applied to a pair whose kinds and names order oppositely, and  *)
(* to a pair of one kind.                                                  *)
C2_Witness ==
  /\ lt # <<>>
  /\ a.type = Dirichlet /\ a.name = Wall
  /\ b.type = Other /\ b.name = Floor
  /\ c.type = Other /\ c.name = Inlet
  /\ lt[1][2] /\ ~lt[2][1] /\ lt[2][3]

(* C3: equal_to agrees with less: equal_to(x,y) iff neither less(x,y) nor  *)
(* less(y,x), and that is exactly when x and y have the same kind and the  *)
(* same name.                                                              *)
C3_EqualFromLess ==
  (lt # <<>> /\ eq # <<>>) =>
    \A i, j \in P3 :
      /\ eq[i][j] = (~lt[i][j] /\ ~lt[j][i])
      /\ eq[i][j] = SameId(args[i], args[j])

(* Both were applied, to two equal identifiers and a third that differs    *)
(* from them in the name alone.                                            *)
C3_Witness ==
  /\ lt # <<>> /\ eq # <<>>
  /\ SameId(a, b) /\ eq[1][2]
  /\ c.type = a.type /\ c.name # a.name /\ ~eq[1][3]

----------------------------------------------------------------------------
(* Records: two BCBase objects, constructed, then changed, applied and     *)
(* compared.                                                               *)
InitRec ==
  /\ \E t \in BCType, n \in Names, f \in Funs : l = BCBase(t, n, f)
  /\ \E t \in BCType, n \in Names, f \in Funs : r = BCBase(t, n, f)
  /\ out = None
  /\ IdleIds /\ IdleColl /\ IdleSeq

(* l.set_fun(f)                                                            *)
SetFun ==
  /\ \E f \in Funs : l' = set_fun(l, f)
  /\ out' = None
  /\ UNCHANGED <<a, b, c, lt, eq, r, coll, policy, last, ops, seq, sel>>

(* l.set_entities(e)                                                       *)
SetEntities ==
  /\ \E e \in EntityLists : l' = set_entities(l, e)
  /\ out' = None
  /\ UNCHANGED <<a, b, c, lt, eq, r, coll, policy, last, ops, seq, sel>>

(* l.set_Id(id)                                                            *)
SetId ==
  /\ \E id \in BCIds : l' = set_Id(l, id)
  /\ out' = None
  /\ UNCHANGED <<a, b, c, lt, eq, r, coll, policy, last, ops, seq, sel>>

(* l.apply(t, coord)                                                       *)
Apply ==
  /\ \E t \in Times, coord \in Coords :
       out' = [op |-> "apply", t |-> t, coord |-> coord, ret |-> apply(l, t, coord)]
  /\ UNCHANGED <<a, b, c, lt, eq, l, r, coll, policy, last, ops, seq, sel>>

(* l < r and l == r                                                        *)
Compare ==
  /\ out' = [op |-> "compare", lt |-> RecLess(l, r), eq |-> RecEq(l, r)]
  /\ UNCHANGED <<a, b, c, lt, eq, l, r, coll, policy, last, ops, seq, sel>>

NextRec == SetFun \/ SetEntities \/ SetId \/ Apply \/ Compare

SpecRec == InitRec /\ [][NextRec]_vars

(* C4: apply on a record bound to the default zero function returns 0.0    *)
(* for every t and coord, and is never an error.                           *)
C4_ApplyDefaultIsZero ==
  (out.op = "apply" /\ l.fun = zerofun) => out.ret = <<0>>

(* C8: l < r and l == r are less and equal_to of the identifiers, so two   *)
(* records of one (kind, name) are equal, and neither is less, whatever    *)
(* their entities and functions.                                           *)
C8_RecordOrderIsIdOrder ==
  out.op = "compare" =>
    /\ out.lt = less(get_Id(l), get_Id(r))
    /\ out.eq = equal_to(get_Id(l), get_Id(r))
    /\ (type(l) = type(r) /\ name(l) = name(r)) => (out.eq /\ ~out.lt)

(* Two records of one identifier, with different entities and different    *)
(* functions, were compared and found equal.                               *)
C8_Witness ==
  /\ out.op = "compare"
  /\ get_Id(l) = get_Id(r)
  /\ entities(l) # entities(r) /\ l.fun # r.fun
  /\ out.eq /\ ~out.lt

----------------------------------------------------------------------------
(* A sorted collection of BCBase with unique keys (the set the header's    *)
(* comments store the records in), ordered by operator<.                   *)
MaxOps == 3

Policies == {"reject", "update"}

(* The first position whose record is not less than x.                     *)
LowerBound(s, x) ==
  IF \E i \in 1..Len(s) : ~RecLess(s[i], x)
  THEN CHOOSE i \in 1..Len(s) :
         /\ ~RecLess(s[i], x)
         /\ \A j \in 1..(i - 1) : RecLess(s[j], x)
  ELSE Len(s) + 1

(* Whether the collection holds a record equivalent to x: neither is less. *)
Holds(s, x) ==
  LET p == LowerBound(s, x) IN p <= Len(s) /\ ~RecLess(x, s[p])

(* Insertion with unique keys.  An equivalent record is kept as it is      *)
(* ("reject") or takes the entities and the function of x ("update");      *)
(* otherwise x goes in at its place in the order.                          *)
insert(s, x, pol) ==
  LET p == LowerBound(s, x) IN
    IF Holds(s, x)
    THEN IF pol = "update"
         THEN [s EXCEPT ![p] = set_entities(set_fun(s[p], x.fun), entities(x))]
         ELSE s
    ELSE SubSeq(s, 1, p - 1) \o <<x>> \o SubSeq(s, p, Len(s))

InitColl ==
  /\ coll = <<>> /\ last = None /\ ops = 0
  /\ policy \in Policies
  /\ IdleIds /\ IdleRec /\ IdleSeq

(* A record is constructed and inserted.                                   *)
Insert ==
  /\ ops < MaxOps
  /\ \E t \in BCType, n \in Names, f \in CtorFuns :
       LET x == BCBase(t, n, f) IN
         /\ coll' = insert(coll, x, policy)
         /\ last' = [op |-> "insert", rec |-> x, len |-> Len(coll),
                     present |-> \E i \in 1..Len(coll) : get_Id(coll[i]) = get_Id(x)]
  /\ ops' = ops + 1
  /\ UNCHANGED <<a, b, c, lt, eq, l, r, out, policy, seq, sel>>

(* set_fun on a stored record, through the const reference the collection  *)
(* hands out.                                                              *)
SetFunAt ==
  /\ ops < MaxOps
  /\ \E i \in 1..Len(coll), f \in Funs :
       /\ coll' = [coll EXCEPT ![i] = set_fun(coll[i], f)]
       /\ last' = [op |-> "set_fun", idx |-> i, arg |-> f, old |-> coll[i].fun]
  /\ ops' = ops + 1
  /\ UNCHANGED <<a, b, c, lt, eq, l, r, out, policy, seq, sel>>

(* set_entities on a stored record.                                        *)
SetEntitiesAt ==
  /\ ops < MaxOps
  /\ \E i \in 1..Len(coll), e \in EntityLists :
       /\ coll' = [coll EXCEPT ![i] = set_entities(coll[i], e)]
       /\ last' = [op |-> "set_entities", idx |-> i, arg |-> e, old |-> entities(coll[i])]
  /\ ops' = ops + 1
  /\ UNCHANGED <<a, b, c, lt, eq, l, r, out, policy, seq, sel>>

NextColl == Insert \/ SetFunAt \/ SetEntitiesAt

SpecColl == InitColl /\ [][NextColl]_vars

Ix(s) == 1..Len(s)

NoTwoOfOneId(s) ==
  \A i, j \in Ix(s) :
    (type(s[i]) = type(s[j]) /\ name(s[i]) = name(s[j])) => i = j

(* C5: no two stored records share the same name, even if they are of      *)
(* different kind.                                                         *)
C5_NoTwoOfOneName ==
  \A i, j \in Ix(coll) : name(coll[i]) = name(coll[j]) => i = j

(* C6: no two stored records share the same (kind, name), and inserting a  *)
(* record whose identifier a stored record has leaves the size unchanged.  *)
C6_UniqueIds ==
  /\ NoTwoOfOneId(coll)
  /\ ((last.op = "insert" /\ last.present) => Len(coll) = last.len)

(* A record was inserted whose identifier a stored record already had,     *)
(* that record holding other entities; the size did not change.            *)
C6_Witness ==
  /\ last.op = "insert" /\ last.present
  /\ Len(coll) = last.len
  /\ \E i \in Ix(coll) :
       /\ get_Id(coll[i]) = get_Id(last.rec)
       /\ entities(coll[i]) # entities(last.rec)

(* C7: iteration visits the records of one kind contiguously, the kinds in *)
(* enumeration order, and within one kind the records in name order.       *)
C7_KindsContiguous ==
  \A i, j \in Ix(coll) :
    i < j =>
      /\ type(coll[i]) <= type(coll[j])
      /\ (type(coll[i]) = type(coll[j]) => DictLess(name(coll[i]), name(coll[j])))
      /\ (type(coll[i]) = type(coll[j]) => \A k \in i..j : type(coll[k]) = type(coll[i]))

(* (Dirichlet, Wall), (Neumann, Inlet) and last (Dirichlet, Floor) were    *)
(* inserted; iteration gives Floor, Wall, Inlet.                           *)
C7_Witness ==
  /\ last.op = "insert" /\ ~last.present
  /\ get_Id(last.rec) = BCId(Dirichlet, Floor)
  /\ Len(coll) = 3
  /\ get_Id(coll[1]) = BCId(Dirichlet, Floor)
  /\ get_Id(coll[2]) = BCId(Dirichlet, Wall)
  /\ get_Id(coll[3]) = BCId(Neumann, Inlet)

Sorted(s) == \A i, j \in Ix(s) : i < j => RecLess(s[i], s[j])

(* C9: set_entities(e) on a stored record makes its entities e, set_fun(f) *)
(* makes its function f; its identifier, its other member and every other  *)
(* record stay as they were, and the collection stays sorted and free of   *)
(* duplicates.                                                             *)
C9_SettersChangePayloadOnly ==
  /\ [][(last'.op = "set_entities" =>
            /\ entities(coll'[last'.idx]) = last'.arg
            /\ coll' = [coll EXCEPT ![last'.idx].entities = last'.arg])
        /\
        (last'.op = "set_fun" =>
            /\ coll'[last'.idx].fun = last'.arg
            /\ coll' = [coll EXCEPT ![last'.idx].fun = last'.arg])]_vars
  /\ [](Sorted(coll) /\ NoTwoOfOneId(coll))

(* set_entities replaced a stored record's entities beside another stored  *)
(* record.                                                                 *)
C9_Witness ==
  /\ last.op = "set_entities"
  /\ Len(coll) = 2
  /\ last.arg = <<2, 1>> /\ last.arg # last.old
  /\ entities(coll[last.idx]) = <<2, 1>>
  /\ \A i \in Ix(coll) : i # last.idx => entities(coll[i]) = <<>>

----------------------------------------------------------------------------
(* A plain sequence of records filtered with the predicate isBCTypeEqual.  *)
MaxLen == 2

(* The elements the predicate holds of, copied in their order.             *)
RECURSIVE copy_if(_, _)
copy_if(s, t) ==
  IF s = <<>> THEN <<>>
  ELSE (IF isBCTypeEqual(t, Head(s)) THEN <<Head(s)>> ELSE <<>>) \o copy_if(Tail(s), t)

InitSeq ==
  /\ seq = <<>> /\ sel = None
  /\ IdleIds /\ IdleRec /\ IdleColl

PushBack ==
  /\ Len(seq) < MaxLen
  /\ \E t \in BCType, n \in Names, f \in CtorFuns : seq' = Append(seq, BCBase(t, n, f))
  /\ sel' = None
  /\ UNCHANGED <<a, b, c, lt, eq, l, r, out, coll, policy, last, ops>>

Filter ==
  /\ \E t \in BCType :
       sel' = [op |-> "filter", type |-> t, kept |-> copy_if(seq, t),
              flags |-> [i \in Ix(seq) |-> isBCTypeEqual(t, seq[i])]]
  /\ UNCHANGED <<a, b, c, lt, eq, l, r, out, coll, policy, last, ops, seq>>

NextSeq == PushBack \/ Filter

SpecSeq == InitSeq /\ [][NextSeq]_vars

(* C10: filtering with isBCTypeEqual(k) selects exactly the records of     *)
(* kind k, in their relative order in the input, and the predicate's       *)
(* result depends on the kind alone.                                       *)
C10_FilterSelectsKind ==
  sel.op = "filter" =>
    LET ofKind == {i \in Ix(seq) : type(seq[i]) = sel.type} IN
      /\ \E f \in [Ix(sel.kept) -> Ix(seq)] :
           /\ \A i, j \in Ix(sel.kept) : i < j => f[i] < f[j]
           /\ {f[i] : i \in Ix(sel.kept)} = ofKind
           /\ \A i \in Ix(sel.kept) : sel.kept[i] = seq[f[i]]
      /\ \A i \in Ix(seq) : sel.flags[i] = (i \in ofKind)

(* Two records of one kind, with different names and functions, and passed *)
(* over or kept together.                                                  *)
C10_Witness ==
  /\ sel.op = "filter" /\ sel.type = Dirichlet
  /\ Len(seq) = 2
  /\ type(seq[1]) = Dirichlet /\ type(seq[2]) = Dirichlet
  /\ name(seq[1]) = Wall /\ name(seq[2]) = Floor
  /\ seq[1].fun # seq[2].fun
  /\ sel.kept = seq

====
